---- MODULE Spec2Model ----
(***************************************************************************)
(* Receiving KPIs (src/app.py): the persistence helpers over the five      *)
(* receiving_* tables, the problem-tag submit handler and the analytics    *)
(* pipeline, as state machines.                                            *)
(*                                                                         *)
(* Representation.  A nullable integer or date is a tuple: <<>> is SQL     *)
(* NULL / Python None and <<n>> is the value n.  A nullable text is a      *)
(* string, with NoneStr standing for NULL / None.  A name typed by a user  *)
(* is a sequence of one-character strings, so that str.strip() is          *)
(* computed.  A date is a day number.  A rate is a fraction [num, den]     *)
(* in lowest terms.  The column date_entered (server clock) is left out.   *)
(***************************************************************************)
EXTENDS Integers, Sequences, FiniteSets, TLC

VARIABLES
    customers,   \* receiving_customers: set of rows [id, customer_name]
    employees,   \* receiving_employees: set of rows [id, employee_name]
    custSeq,     \* identity sequence of receiving_customers.id
    empSeq,      \* identity sequence of receiving_employees.id
    tags,        \* receiving_problem_tags: committed header rows
    lines,       \* receiving_problem_lines: committed line rows
    tagSeq,      \* identity sequence of receiving_problem_tags.id
    lineSeq,     \* identity sequence of receiving_problem_lines.id
    daily,       \* receiving_daily_actuals: committed rows
    dailySeq,    \* identity sequence of receiving_daily_actuals.id
    tx,          \* per script run: its open transaction (its uncommitted rows)
    ret,         \* per script run: what its call returned or raised
    calls,       \* lines argument of each save_problem_tag call, by tag id
    log,         \* <<kind, name, id>> of every add_customer_if_needed /
                 \* add_employee call that has returned
    view,        \* dataframe last returned to a reader
    agg          \* last outcome of the analytics pipeline

vars == <<customers, employees, custSeq, empSeq, tags, lines, tagSeq, lineSeq,
          daily, dailySeq, tx, ret, calls, log, view, agg>>

registryVars == <<customers, employees, custSeq, empSeq>>
tagVars      == <<tags, lines, tagSeq, lineSeq>>
dailyVars    == <<daily, dailySeq>>

-----------------------------------------------------------------------------
(* Bounds of the model *)

MaxLines   == 2     \* longest lines argument of save_problem_tag
MaxUpserts == 3     \* upsert statements executed in one behaviour of SpecRegistry
MaxTags    == 2     \* problem tags saved in one behaviour of SpecAnalytics
MaxDaily   == 2     \* daily entries saved in one behaviour of SpecAnalytics
MaxClicks  == 2     \* submit clicks that reach save_problem_tag in SpecSubmit

-----------------------------------------------------------------------------
(* Values *)

NULL    == <<>>
NoneStr == "<None>"
Some(x) == <<x>>

\* Python truthiness of an optional integer/date and of an optional text.
Falsy(v)    == v = NULL \/ v = Some(0)
FalsyStr(s) == s = NoneStr \/ s = ""

TEAM_OPTIONS == <<"Screenprint", "Embroidery", "Digital", "VAS">>

PROBLEM_TYPES == <<"Damaged in Production", "Short/ Heavy Items", "Factory Damage">>

SIZE_OPTIONS == <<"2T", "3T", "4T", "5/6T", "YXS", "YS", "YM", "YL", "YXL",
                  "XS", "S", "M", "L", "XL", "2XL", "3XL", "OTHER">>

SHORT_HEAVY_OPTIONS == <<"", "Short", "Heavy", "Short/Heavy">>

COLOR_MATCH_OPTIONS == <<"", "Matches Packing Slip", "Does Not Match Packing Slip">>

Range(s) == {s[i] : i \in DOMAIN s}

\* The stored form of a packing-slip choice: 1, 0, or None for anything else.
\* No page calls it: the submission page stores None in the column.
packing_slip_to_bool(val) ==
    IF FalsyStr(val) THEN NULL
    ELSE IF val = "Matches Packing Slip" THEN Some(1)
    ELSE IF val = "Does Not Match Packing Slip" THEN Some(0)
    ELSE NULL

\* Script runs: each run of the script serves one click, on its own connection.
Sessions == {"s1", "s2"}

Idle == [pc |-> "idle"]

Done == [pc |-> "done"]

NoRet == [status |-> "none"]

-----------------------------------------------------------------------------
(* save_problem_tag: the rows and the storage constraints *)

LineKeys == {"short_heavy_tag", "style_number", "item_description", "color",
             "size", "vendor_packing_slip_matches", "qty_short", "qty_heavy"}

\* dict.get(key): None when the key is absent.
GetStr(ln, k) == IF k \in DOMAIN ln THEN ln[k] ELSE NoneStr
GetInt(ln, k) == IF k \in DOMAIN ln THEN ln[k] ELSE NULL

\* The row the header INSERT builds (active defaults to 1).
HeaderRow(id, h) ==
    [id                  |-> id,
     date_found          |-> h.date_found,
     po_number           |-> h.po_number,
     customer_id         |-> h.customer_id,
     job_name            |-> h.job_name,
     team_name           |-> h.team_name,
     author_name         |-> h.author_name,
     problem_type        |-> h.problem_type,
     mistake_employee_id |-> h.mistake_employee_id,
     notes               |-> h.notes,
     active              |-> 1]

\* The row one line INSERT builds from the dict ln.
LineRow(id, tagId, ln) ==
    [id                          |-> id,
     tag_id                      |-> tagId,
     short_heavy_tag             |-> GetStr(ln, "short_heavy_tag"),
     style_number                |-> GetStr(ln, "style_number"),
     item_description            |-> GetStr(ln, "item_description"),
     color                       |-> GetStr(ln, "color"),
     size                        |-> GetStr(ln, "size"),
     vendor_packing_slip_matches |-> GetInt(ln, "vendor_packing_slip_matches"),
     qty_short                   |-> GetInt(ln, "qty_short"),
     qty_heavy                   |-> GetInt(ln, "qty_heavy")]

\* HeaderAccepted as it would be were customer_id declared without REFERENCES.
HeaderAcceptedNoCustomerKey(row) ==
    /\ row.date_found # NULL
    /\ row.po_number # NoneStr
    /\ row.customer_id # NULL
    /\ row.job_name # NoneStr
    /\ row.team_name # NoneStr
    /\ row.author_name # NoneStr
    /\ row.problem_type # NoneStr
    /\ \/ row.mistake_employee_id = NULL
       \/ \E e \in employees : Some(e.id) = row.mistake_employee_id

\* receiving_problem_tags: NOT NULL columns and the two foreign keys.
HeaderAccepted(row) ==
    /\ row.date_found # NULL
    /\ row.po_number # NoneStr
    /\ row.customer_id # NULL
    /\ row.job_name # NoneStr
    /\ row.team_name # NoneStr
    /\ row.author_name # NoneStr
    /\ row.problem_type # NoneStr
    /\ \E c \in customers : Some(c.id) = row.customer_id
    /\ \/ row.mistake_employee_id = NULL
       \/ \E e \in employees : Some(e.id) = row.mistake_employee_id

\* receiving_problem_lines: NOT NULL columns (tag_id is the header just inserted).
LineAccepted(row) ==
    /\ row.style_number # NoneStr
    /\ row.item_description # NoneStr
    /\ row.color # NoneStr
    /\ row.size # NoneStr

-----------------------------------------------------------------------------
(* save_problem_tag, statement by statement, inside `with eng.begin()` *)

\* Abort as it would be were the header INSERT committed on its own (the
\* statements run outside one transaction): the header outlives the failure.
AbortKeepsHeader(s, tagId, at) ==
    /\ tx' = [tx EXCEPT ![s] = Done]
    /\ ret' = [ret EXCEPT ![s] =
                  [status |-> "IntegrityError", tag_id |-> tagId, at |-> at]]
    /\ calls' = [t \in DOMAIN calls \ {tagId} |-> calls[t]]
    /\ tags' = IF at = 0 THEN tags ELSE tags \cup {tx[s].tag}
    /\ UNCHANGED lines

\* An exception leaves the `with eng.begin()` block: the transaction is rolled
\* back, its uncommitted rows are discarded and the caller sees the error.
\* `at` is the number of the line INSERT that raised (0: the header INSERT).
Abort(s, tagId, at) ==
    /\ tx' = [tx EXCEPT ![s] = Done]
    /\ ret' = [ret EXCEPT ![s] =
                  [status |-> "IntegrityError", tag_id |-> tagId, at |-> at]]
    /\ calls' = [t \in DOMAIN calls \ {tagId} |-> calls[t]]
    /\ UNCHANGED <<tags, lines>>

\* InsertHeader as it would be on an autocommit connection: the accepted header
\* row is committed by the statement itself.
InsertHeaderAutocommit(s, h, lns) ==
    /\ tx[s].pc = "idle"
    /\ LET id  == tagSeq + 1
           row == HeaderRow(id, h)
       IN  /\ tagSeq' = id
           /\ IF HeaderAccepted(row)
              THEN /\ tx' = [tx EXCEPT ![s] =
                                [pc |-> "lines", tag |-> row, pend |-> <<>>, todo |-> lns]]
                   /\ ret' = [ret EXCEPT ![s] = NoRet]
                   /\ calls' = calls @@ (id :> lns)
                   /\ tags' = tags \cup {row}
                   /\ UNCHANGED lines
              ELSE Abort(s, id, 0)
    /\ UNCHANGED <<registryVars, lineSeq, dailyVars, log, view, agg>>

\* The header INSERT ... RETURNING id.  The identity value is drawn before the
\* constraints are checked, so a rejected row still consumes it.
InsertHeader(s, h, lns) ==
    /\ tx[s].pc = "idle"
    /\ LET id  == tagSeq + 1
           row == HeaderRow(id, h)
       IN  /\ tagSeq' = id
           /\ IF HeaderAccepted(row)
              THEN /\ tx' = [tx EXCEPT ![s] =
                                [pc |-> "lines", tag |-> row, pend |-> <<>>, todo |-> lns]]
                   /\ ret' = [ret EXCEPT ![s] = NoRet]
                   /\ calls' = calls @@ (id :> lns)
                   /\ UNCHANGED <<tags, lines>>
              ELSE Abort(s, id, 0)
    /\ UNCHANGED <<registryVars, lineSeq, dailyVars, log, view, agg>>

\* One pass of `for ln in lines`: the line INSERT with the header's id.
InsertLine(s) ==
    /\ tx[s].pc = "lines"
    /\ tx[s].todo # <<>>
    /\ LET id  == lineSeq + 1
           row == LineRow(id, tx[s].tag.id, Head(tx[s].todo))
       IN  /\ lineSeq' = id
           /\ IF LineAccepted(row)
              THEN /\ tx' = [tx EXCEPT ![s].pend = Append(@, row),
                                       ![s].todo = Tail(@)]
                   /\ UNCHANGED <<tags, lines, ret, calls>>
              ELSE Abort(s, tx[s].tag.id, Len(tx[s].pend) + 1)
    /\ UNCHANGED <<registryVars, tagSeq, dailyVars, log, view, agg>>

\* The loop is over: the `with` block commits header and lines together and
\* save_problem_tag returns tag_id.
CommitTag(s) ==
    /\ tx[s].pc = "lines"
    /\ tx[s].todo = <<>>
    /\ tags' = tags \cup {tx[s].tag}
    /\ lines' = lines \cup Range(tx[s].pend)
    /\ tx' = [tx EXCEPT ![s] = Done]
    /\ ret' = [ret EXCEPT ![s] = [status |-> "ok", tag_id |-> tx[s].tag.id]]
    /\ UNCHANGED <<registryVars, tagSeq, lineSeq, dailyVars, calls, log, view, agg>>

-----------------------------------------------------------------------------
(* fetch_problem_tags_and_lines *)

NullLine ==
    [id |-> NULL, short_heavy_tag |-> NoneStr, style_number |-> NoneStr,
     item_description |-> NoneStr, color |-> NoneStr, size |-> NoneStr,
     vendor_packing_slip_matches |-> NULL, qty_short |-> NULL, qty_heavy |-> NULL]

\* One row of the SELECT list.
Joined(t, c, mistakeBy, l) ==
    [tag_id           |-> t.id,
     date_found       |-> t.date_found[1],
     po_number        |-> t.po_number,
     job_name         |-> t.job_name,
     team_name        |-> t.team_name,
     author_name      |-> t.author_name,
     problem_type     |-> t.problem_type,
     notes            |-> t.notes,
     customer_name    |-> c.customer_name,
     mistake_made_by  |-> mistakeBy,
     line_id          |-> l.id,
     short_heavy_tag  |-> l.short_heavy_tag,
     style_number     |-> l.style_number,
     item_description |-> l.item_description,
     color            |-> l.color,
     size             |-> l.size,
     vendor_packing_slip_matches |-> l.vendor_packing_slip_matches,
     qty_short        |-> l.qty_short,
     qty_heavy        |-> l.qty_heavy]

\* FROM tags t JOIN customers c LEFT JOIN employees e LEFT JOIN lines l WHERE ...
\* over the committed rows (a reader's snapshot).
JoinedRows(start, end, team_filter, customer_id) ==
    UNION {
        LET ls == {[l EXCEPT !.id = Some(l.id)] : l \in {x \in lines : x.tag_id = t.id}}
            es == {e \in employees : Some(e.id) = t.mistake_employee_id}
            by == IF es = {} THEN NoneStr ELSE (CHOOSE e \in es : TRUE).employee_name
        IN  {Joined(t, c, by, l) : l \in (IF ls = {} THEN {NullLine} ELSE ls)}
        : <<t, c>> \in {tc \in tags \X customers :
              /\ Some(tc[2].id) = tc[1].customer_id
              /\ start <= tc[1].date_found[1]
              /\ tc[1].date_found[1] <= end
              /\ tc[1].active = 1
              /\ (FalsyStr(team_filter) \/ team_filter = "-- All --"
                    \/ tc[1].team_name = team_filter)
              /\ (customer_id = NULL \/ tc[1].customer_id = customer_id)} }

\* RowBefore as it would be with the lines in descending id order.
RowBeforeLineDesc(a, b) ==
    \/ a.date_found < b.date_found
    \/ a.date_found = b.date_found /\ a.tag_id < b.tag_id
    \/ /\ a.date_found = b.date_found /\ a.tag_id = b.tag_id
       /\ a.line_id # NULL /\ b.line_id # NULL
       /\ a.line_id[1] > b.line_id[1]

\* ORDER BY t.date_found, t.id, l.id
RowBefore(a, b) ==
    \/ a.date_found < b.date_found
    \/ a.date_found = b.date_found /\ a.tag_id < b.tag_id
    \/ /\ a.date_found = b.date_found /\ a.tag_id = b.tag_id
       /\ a.line_id # NULL /\ b.line_id # NULL
       /\ a.line_id[1] < b.line_id[1]

RECURSIVE OrderedRows(_)
OrderedRows(S) ==
    IF S = {} THEN <<>>
    ELSE LET m == CHOOSE x \in S : \A y \in S \ {x} : ~RowBefore(y, x)
         IN  <<m>> \o OrderedRows(S \ {m})

fetch_problem_tags_and_lines(start, end, team_filter, customer_id) ==
    OrderedRows(JoinedRows(start, end, team_filter, customer_id))

\* The tag ids present in a dataframe of joined rows.
TagIdsOf(df) == {df[i].tag_id : i \in DOMAIN df}

-----------------------------------------------------------------------------
(* Inputs the behaviours draw from *)

Acme == <<"A", "c", "m", "e">>
Bolt == <<"B", "o", "l", "t">>

Dates == {1, 2}

\* A header as the submit handler builds it (optional fields defaulted).
Header(d, cust, team) ==
    [date_found          |-> d,
     po_number           |-> "N/A",
     customer_id         |-> cust,
     job_name            |-> "Quick Entry",
     team_name           |-> team,
     author_name         |-> "Receiving Team",
     problem_type        |-> PROBLEM_TYPES[1],
     mistake_employee_id |-> NULL,
     notes               |-> ""]

\* Customer 1 exists in the initial store of Spec; customer 2 does not.
HeaderInputs ==
    {Header(Some(1), Some(1), "Screenprint"),
     Header(Some(2), Some(1), "Embroidery"),
     Header(Some(1), Some(2), "Screenprint")}

LineShort ==
    [short_heavy_tag |-> "Short", style_number |-> "A1", item_description |-> "Shirt",
     color |-> "Red", size |-> "M", vendor_packing_slip_matches |-> Some(1),
     qty_short |-> Some(3), qty_heavy |-> NULL]

LineHeavy ==
    [short_heavy_tag |-> "Heavy", style_number |-> "B2", item_description |-> "Cap",
     color |-> "Blue", size |-> "L", vendor_packing_slip_matches |-> NULL,
     qty_short |-> NULL, qty_heavy |-> Some(7)]

\* A dict without the key style_number: ln.get gives None, the column is NOT NULL.
LineNoStyle == [k \in LineKeys \ {"style_number"} |-> LineShort[k]]

LineInputs == {LineShort, LineHeavy, LineNoStyle}

LineLists == UNION {[1..n -> LineInputs] : n \in 0..MaxLines}

\* Arguments of a reader's call: <<start, end, team_filter, customer_id>>.
AllRows == <<1, 2, "-- All --", NULL>>

Queries == {AllRows, <<1, 1, "Screenprint", Some(1)>>}

-----------------------------------------------------------------------------
(* Spec: sessions submitting problem tags while readers query *)

\* A reader runs the analytics query on its own connection.
Fetch(q) ==
    /\ view' = fetch_problem_tags_and_lines(q[1], q[2], q[3], q[4])
    /\ UNCHANGED <<registryVars, tagVars, dailyVars, tx, ret, calls, log, agg>>

Init ==
    /\ customers = {[id |-> 1, customer_name |-> Acme]}
    /\ custSeq = 1
    /\ employees = {}
    /\ empSeq = 0
    /\ tags = {}
    /\ lines = {}
    /\ tagSeq = 0
    /\ lineSeq = 0
    /\ daily = {}
    /\ dailySeq = 0
    /\ tx = [s \in Sessions |-> Idle]
    /\ ret = [s \in Sessions |-> NoRet]
    /\ calls = <<>>
    /\ log = {}
    /\ view = <<>>
    /\ agg = <<>>

Next ==
    \/ \E s \in Sessions, h \in HeaderInputs, lns \in LineLists : InsertHeader(s, h, lns)
    \/ \E s \in Sessions : InsertLine(s)
    \/ \E s \in Sessions : CommitTag(s)
    \/ \E q \in Queries : Fetch(q)

Spec == Init /\ [][Next]_vars

-----------------------------------------------------------------------------
(* add_customer_if_needed / add_employee *)

Whitespace == {" ", "\t", "\n"}

\* str.strip(): leading and trailing whitespace removed.
RECURSIVE LStrip(_)
LStrip(n) == IF n # <<>> /\ Head(n) \in Whitespace THEN LStrip(Tail(n)) ELSE n

RECURSIVE RStrip(_)
RStrip(n) ==
    IF n # <<>> /\ n[Len(n)] \in Whitespace THEN RStrip(SubSeq(n, 1, Len(n) - 1)) ELSE n

Strip(n) == RStrip(LStrip(n))

\* The rows of a registry table as <<id, name>>, whatever its column names.
Registry(kind) ==
    IF kind = "customer"
    THEN {<<c.id, c.customer_name>> : c \in customers}
    ELSE {<<e.id, e.employee_name>> : e \in employees}

\* Another open transaction holds an uncommitted insert or update of this name:
\* the unique index makes the statement wait until that transaction ends.
NameLocked(s, kind, name) ==
    \E o \in Sessions \ {s} :
        tx[o].pc = "upserted" /\ tx[o].kind = kind /\ tx[o].name = name

\* CallAdd as it would be without name = name.strip().
CallAddNoStrip(s, kind, raw) ==
    /\ tx[s].pc = "idle"
    /\ custSeq + empSeq + Cardinality({o \in Sessions : tx[o].pc = "upsert"}) < MaxUpserts
    /\ IF raw = <<>>
       THEN /\ ret' = [ret EXCEPT ![s] =
                          [status |-> "ValueError", kind |-> kind, raw |-> raw]]
            /\ tx' = tx
       ELSE /\ tx' = [tx EXCEPT ![s] =
                         [pc |-> "upsert", kind |-> kind, name |-> raw, raw |-> raw]]
            /\ ret' = [ret EXCEPT ![s] = NoRet]
    /\ UNCHANGED <<registryVars, tagVars, dailyVars, calls, log, view, agg>>

\* name = name.strip(); raise ValueError if empty; otherwise open the
\* transaction and send the INSERT ... ON CONFLICT statement.
CallAdd(s, kind, raw) ==
    /\ tx[s].pc = "idle"
    /\ custSeq + empSeq + Cardinality({o \in Sessions : tx[o].pc = "upsert"}) < MaxUpserts
    /\ LET name == Strip(raw)
       IN  IF name = <<>>
           THEN /\ ret' = [ret EXCEPT ![s] =
                              [status |-> "ValueError", kind |-> kind, raw |-> raw]]
                /\ tx' = tx
           ELSE /\ tx' = [tx EXCEPT ![s] =
                             [pc |-> "upsert", kind |-> kind, name |-> name, raw |-> raw]]
                /\ ret' = [ret EXCEPT ![s] = NoRet]
    /\ UNCHANGED <<registryVars, tagVars, dailyVars, calls, log, view, agg>>

add_customer_if_needed(s, raw) == CallAdd(s, "customer", raw)

add_employee(s, raw) == CallAdd(s, "employee", raw)

\* Upsert as it would be with a plain INSERT (no ON CONFLICT clause): a name
\* already stored violates the unique constraint and the call raises.
UpsertPlainInsert(s) ==
    /\ tx[s].pc = "upsert"
    /\ ~NameLocked(s, tx[s].kind, tx[s].name)
    /\ LET kind == tx[s].kind
           new  == (IF kind = "customer" THEN custSeq ELSE empSeq) + 1
           hit  == {r \in Registry(kind) : r[2] = tx[s].name}
       IN  /\ custSeq' = IF kind = "customer" THEN new ELSE custSeq
           /\ empSeq' = IF kind = "employee" THEN new ELSE empSeq
           /\ IF hit = {}
              THEN /\ tx' = [tx EXCEPT ![s] =
                                [pc |-> "upserted", kind |-> kind, name |-> tx[s].name,
                                 raw |-> tx[s].raw, id |-> new, existed |-> FALSE]]
                   /\ ret' = ret
              ELSE /\ tx' = [tx EXCEPT ![s] = Idle]
                   /\ ret' = [ret EXCEPT ![s] =
                                 [status |-> "IntegrityError", kind |-> kind]]
    /\ UNCHANGED <<customers, employees, tagVars, dailyVars, calls, log, view, agg>>

\* INSERT ... ON CONFLICT (name) DO UPDATE SET name = EXCLUDED.name RETURNING id.
\* An identity value is drawn for the proposed row in either case.  Without a
\* conflict the row is inserted with it; on conflict the existing row is
\* updated in place and its id is returned.
Upsert(s) ==
    /\ tx[s].pc = "upsert"
    /\ ~NameLocked(s, tx[s].kind, tx[s].name)
    /\ LET kind == tx[s].kind
           new  == (IF kind = "customer" THEN custSeq ELSE empSeq) + 1
           hit  == {r \in Registry(kind) : r[2] = tx[s].name}
           id   == IF hit = {} THEN new ELSE (CHOOSE r \in hit : TRUE)[1]
       IN  /\ custSeq' = IF kind = "customer" THEN new ELSE custSeq
           /\ empSeq' = IF kind = "employee" THEN new ELSE empSeq
           /\ tx' = [tx EXCEPT ![s] =
                        [pc |-> "upserted", kind |-> kind, name |-> tx[s].name,
                         raw |-> tx[s].raw, id |-> id, existed |-> hit # {}]]
    /\ UNCHANGED <<customers, employees, tagVars, dailyVars, ret, calls, log, view, agg>>

\* The row of the table after the statement's effect: inserted, or updated in place.
Upserted(table, id, row) == {r \in table : r.id # id} \cup {row}

\* CommitUpsert as it would be were a stored name deleted and inserted anew
\* (DELETE, then INSERT) instead of updated in place: the row gets a new id.
CommitUpsertDeleteInsert(s) ==
    /\ tx[s].pc = "upserted"
    /\ customers' = IF tx[s].kind = "customer"
                    THEN {r \in customers : r.customer_name # tx[s].name}
                            \cup {[id |-> custSeq, customer_name |-> tx[s].name]}
                    ELSE customers
    /\ employees' = IF tx[s].kind = "employee"
                    THEN {r \in employees : r.employee_name # tx[s].name}
                            \cup {[id |-> empSeq, employee_name |-> tx[s].name]}
                    ELSE employees
    /\ tx' = [tx EXCEPT ![s] = Idle]
    /\ ret' = [ret EXCEPT ![s] =
                  [status |-> "ok", kind |-> tx[s].kind, name |-> tx[s].name,
                   raw |-> tx[s].raw, id |-> tx[s].id]]
    /\ log' = log \cup {<<tx[s].kind, tx[s].name, tx[s].id>>}
    /\ UNCHANGED <<custSeq, empSeq, tagVars, dailyVars, calls, view, agg>>

\* `with eng.begin()` commits; the function returns the id.
CommitUpsert(s) ==
    /\ tx[s].pc = "upserted"
    /\ customers' = IF tx[s].kind = "customer"
                    THEN Upserted(customers, tx[s].id,
                                  [id |-> tx[s].id, customer_name |-> tx[s].name])
                    ELSE customers
    /\ employees' = IF tx[s].kind = "employee"
                    THEN Upserted(employees, tx[s].id,
                                  [id |-> tx[s].id, employee_name |-> tx[s].name])
                    ELSE employees
    /\ tx' = [tx EXCEPT ![s] = Idle]
    /\ ret' = [ret EXCEPT ![s] =
                  [status |-> "ok", kind |-> tx[s].kind, name |-> tx[s].name,
                   raw |-> tx[s].raw, id |-> tx[s].id]]
    /\ log' = log \cup {<<tx[s].kind, tx[s].name, tx[s].id>>}
    /\ UNCHANGED <<custSeq, empSeq, tagVars, dailyVars, calls, view, agg>>

RawNames == {<<>>, <<" ">>, Acme, <<" ">> \o Acme \o <<"\n">>, Bolt}

InitRegistry ==
    /\ customers = {}
    /\ custSeq = 0
    /\ employees = {}
    /\ empSeq = 0
    /\ tags = {}
    /\ lines = {}
    /\ tagSeq = 0
    /\ lineSeq = 0
    /\ daily = {}
    /\ dailySeq = 0
    /\ tx = [s \in Sessions |-> Idle]
    /\ ret = [s \in Sessions |-> NoRet]
    /\ calls = <<>>
    /\ log = {}
    /\ view = <<>>
    /\ agg = <<>>

NextRegistry ==
    \/ \E s \in Sessions, raw \in RawNames : add_customer_if_needed(s, raw)
    \/ \E s \in Sessions, raw \in RawNames : add_employee(s, raw)
    \/ \E s \in Sessions : Upsert(s)
    \/ \E s \in Sessions : CommitUpsert(s)

SpecRegistry == InitRegistry /\ [][NextRegistry]_vars

-----------------------------------------------------------------------------
(* save_problem_tag and save_daily_actuals as whole calls (no other session
   between their statements) *)

\* The whole `with eng.begin()` block of save_problem_tag: header INSERT, one
\* INSERT per line, commit; the first rejected row rolls everything back.
save_problem_tag(s, h, lns) ==
    LET id    == tagSeq + 1
        row   == HeaderRow(id, h)
        lrows == [i \in 1..Len(lns) |-> LineRow(lineSeq + i, id, lns[i])]
        bad   == {i \in 1..Len(lns) : ~LineAccepted(lrows[i])}
        first == CHOOSE i \in bad : \A j \in bad : i <= j
    IN  /\ tagSeq' = id
        /\ IF ~HeaderAccepted(row)
           THEN /\ ret' = [ret EXCEPT ![s] =
                              [status |-> "IntegrityError", tag_id |-> id, at |-> 0]]
                /\ UNCHANGED <<tags, lines, lineSeq>>
           ELSE IF bad # {}
           THEN /\ ret' = [ret EXCEPT ![s] =
                              [status |-> "IntegrityError", tag_id |-> id, at |-> first]]
                /\ lineSeq' = lineSeq + first
                /\ UNCHANGED <<tags, lines>>
           ELSE /\ tags' = tags \cup {row}
                /\ lines' = lines \cup Range(lrows)
                /\ lineSeq' = lineSeq + Len(lns)
                /\ ret' = [ret EXCEPT ![s] = [status |-> "ok", tag_id |-> id]]

\* INSERT INTO receiving_daily_actuals ... RETURNING id (active defaults to 1).
save_daily_actuals(s, receiving_date, orders_received, estimated_units, author_name, notes) ==
    /\ dailySeq' = dailySeq + 1
    /\ daily' = daily \cup
          {[id              |-> dailySeq + 1,
            receiving_date  |-> receiving_date,
            orders_received |-> orders_received,
            estimated_units |-> estimated_units,
            author_name     |-> author_name,
            notes           |-> notes,
            active          |-> 1]}
    /\ ret' = [ret EXCEPT ![s] = [status |-> "ok", id |-> dailySeq + 1]]

\* SELECT ... FROM receiving_daily_actuals WHERE receiving_date BETWEEN :s AND :e
fetch_daily_actuals(start, end) ==
    {r \in daily : start <= r.receiving_date /\ r.receiving_date <= end}

-----------------------------------------------------------------------------
(* The analytics pipeline of main *)

RECURSIVE SumOf(_, _)
\* Sum of f[x] over the finite set S.
SumOf(S, f) ==
    IF S = {} THEN 0
    ELSE LET x == CHOOSE y \in S : TRUE IN f[x] + SumOf(S \ {x}, f)

RECURSIVE Gcd(_, _)
Gcd(a, b) == IF b = 0 THEN a ELSE Gcd(b, a % b)

\* The quotient n / d (d > 0) as a fraction in lowest terms.
Quotient(n, d) == LET g == Gcd(n, d) IN [num |-> n \div g, den |-> d \div g]

Zero == [num |-> 0, den |-> 1]

\* (error_units / total_units) if total_units > 0 else 0.0
ErrorRate(error_units, total_units) ==
    IF total_units > 0 THEN Quotient(error_units, total_units) ELSE Zero

RateLess(a, b) == a.num * b.den < b.num * a.den

\* Code point order of the characters names are made of.
CharOrder == <<"\t", "\n", " ", "A", "B", "C", "c", "d", "e", "l", "m", "o", "r", "s", "t">>

Code(ch) == CHOOSE i \in DOMAIN CharOrder : CharOrder[i] = ch

RECURSIVE NameLess(_, _)
\* a < b on strings.
NameLess(a, b) ==
    IF b = <<>> THEN FALSE
    ELSE IF a = <<>> THEN TRUE
    ELSE IF Head(a) # Head(b) THEN Code(Head(a)) < Code(Head(b))
    ELSE NameLess(Tail(a), Tail(b))

\* problems_df[["qty_short", "qty_heavy"]].fillna(0).sum(axis=1)
ErrorUnitsOfRow(r) ==
    (IF r.qty_short = NULL THEN 0 ELSE r.qty_short[1])
        + (IF r.qty_heavy = NULL THEN 0 ELSE r.qty_heavy[1])

\* DailyUnits as it would be were a date's latest entry to stand for the date.
DailyUnitsLatest(daily_df) ==
    [d \in {r.receiving_date : r \in daily_df} |->
        (CHOOSE r \in daily_df :
            /\ r.receiving_date = d
            /\ \A o \in daily_df : o.receiving_date = d => o.id <= r.id).estimated_units]

\* daily_df.groupby("receiving_date")["estimated_units"].sum(): date -> total_units
DailyUnits(daily_df) ==
    [d \in {r.receiving_date : r \in daily_df} |->
        SumOf({r \in daily_df : r.receiving_date = d},
              [r \in daily_df |-> r.estimated_units])]

\* problems_df grouped by (tag_id, date_found, customer_name, team_name,
\* problem_type) with error_units summed, left-merged with daily_units on
\* date_found, total_units NaN filled with 0, orders_with_issue = 1, error_rate.
TagLevelRow(problems_df, daily_units, t) ==
    LET idx == {i \in DOMAIN problems_df : problems_df[i].tag_id = t}
        one == problems_df[CHOOSE i \in idx : TRUE]
        eu  == SumOf(idx, [i \in idx |-> ErrorUnitsOfRow(problems_df[i])])
        tu  == IF one.date_found \in DOMAIN daily_units
               THEN daily_units[one.date_found] ELSE 0
    IN  [tag_id            |-> t,
         date_found        |-> one.date_found,
         customer_name     |-> one.customer_name,
         team_name         |-> one.team_name,
         problem_type      |-> one.problem_type,
         error_units       |-> eu,
         total_units       |-> tu,
         orders_with_issue |-> 1,
         error_rate        |-> ErrorRate(eu, tu)]

TagLevel(problems_df, daily_units) ==
    {TagLevelRow(problems_df, daily_units, t) : t \in TagIdsOf(problems_df)}

RECURSIVE SumOfRates(_)
\* Sum of the error_rate of the rows of S, as <<numerator, denominator>>.
SumOfRates(S) ==
    IF S = {} THEN <<0, 1>>
    ELSE LET r == CHOOSE y \in S : TRUE
             t == SumOfRates(S \ {r})
         IN  <<r.error_rate.num * t[2] + t[1] * r.error_rate.den, r.error_rate.den * t[2]>>

\* The mean of the error_rate column over the rows of S.
MeanRate(S) ==
    LET t == SumOfRates(S) IN Quotient(t[1], t[2] * Cardinality(S))

\* CustAggRow as it would be with error_rate aggregated as the mean of the tags' rates.
CustAggRowMeanRate(tag_level, name) ==
    LET g  == {r \in tag_level : r.customer_name = name}
    IN  [customer_name     |-> name,
         orders_with_issue |-> SumOf(g, [r \in g |-> r.orders_with_issue]),
         error_units       |-> SumOf(g, [r \in g |-> r.error_units]),
         total_units       |-> SumOf(g, [r \in g |-> r.total_units]),
         error_rate        |-> MeanRate(g)]

\* tag_level.groupby("customer_name") with the three sums, then error_rate.
CustAggRow(tag_level, name) ==
    LET g  == {r \in tag_level : r.customer_name = name}
        eu == SumOf(g, [r \in g |-> r.error_units])
        tu == SumOf(g, [r \in g |-> r.total_units])
    IN  [customer_name     |-> name,
         orders_with_issue |-> SumOf(g, [r \in g |-> r.orders_with_issue]),
         error_units       |-> eu,
         total_units       |-> tu,
         error_rate        |-> ErrorRate(eu, tu)]

CustAgg(tag_level) ==
    {CustAggRow(tag_level, n) : n \in {r.customer_name : r \in tag_level}}

SortModes == <<"Highest error rate", "Most error units", "Most problem tags",
               "Customer name">>

\* Row a sorts strictly before row b on sort_mode's column and direction.
SortedBefore(sort_mode, a, b) ==
    CASE sort_mode = "Highest error rate" -> RateLess(b.error_rate, a.error_rate)
      [] sort_mode = "Most error units"   -> a.error_units > b.error_units
      [] sort_mode = "Most problem tags"  -> a.orders_with_issue > b.orders_with_issue
      [] sort_mode = "Customer name"      -> NameLess(a.customer_name, b.customer_name)
      [] OTHER                            -> FALSE

\* The orders cust_agg.sort_values(column, ascending=...) may leave the rows
\* in: sorted on the one column, with sort_values' default, unstable sort
\* nothing orders rows of equal key.
SortValues(cust_agg, sort_mode) ==
    {q \in [1..Cardinality(cust_agg) -> cust_agg] :
        /\ \A i, j \in DOMAIN q : i # j => q[i] # q[j]
        /\ \A i, j \in DOMAIN q : i < j => ~SortedBefore(sort_mode, q[j], q[i])}


AllOption == "-- All --"

\* The "-- All --" entry of the customer selectbox, among the customer names.
AllCustomers == <<AllOption>>

NotRendered == [status |-> "not rendered"]

\* What the Analytics page computes from the two dataframes: the early returns,
\* the merge of tag_level with daily_units, and otherwise the tag-level frame,
\* the sorted per-customer frame and the four headline metrics.  When daily_df
\* is empty, daily_units is built with the columns receiving_date, total_units
\* and the merge on "date_found" raises KeyError.
AnalyticsOutcomes(query, problems_df, daily_df) ==
    IF problems_df = <<>> /\ daily_df = {}
    THEN {[status |-> "No data found in this date range.", query |-> query]}
    ELSE IF problems_df = <<>>
    THEN {[status |-> "No problem tags found in this date range.", query |-> query]}
    ELSE IF daily_df = {}
    THEN {[status |-> "KeyError", query |-> query]}
    ELSE LET daily_units == DailyUnits(daily_df)
             tag_level   == TagLevel(problems_df, daily_units)
             teu == SumOf(tag_level, [r \in tag_level |-> r.error_units])
             tuo == SumOf(DOMAIN daily_units, daily_units)
         IN  {[status                   |-> "ok",
               query                    |-> query,
               tag_level                |-> tag_level,
               cust_agg                 |-> q,
               total_orders_with_issues |->
                   SumOf(tag_level, [r \in tag_level |-> r.orders_with_issue]),
               total_error_units        |-> teu,
               total_units_overall      |-> tuo,
               overall_error_rate       |-> ErrorRate(teu, tuo)]
              : q \in SortValues(CustAgg(tag_level), query.sort_mode)}

\* One run of the script on the Analytics page.
Analytics(start_date, end_date, team_filter, cust_filter, sort_mode) ==
    LET customer_id ==
            IF cust_filter = AllCustomers THEN NULL
            ELSE Some((CHOOSE c \in customers : c.customer_name = cust_filter).id)
        query == [start_date |-> start_date, end_date |-> end_date,
                  team_filter |-> team_filter, cust_filter |-> cust_filter,
                  sort_mode |-> sort_mode]
    IN  /\ agg' \in AnalyticsOutcomes(query,
                       fetch_problem_tags_and_lines(start_date, end_date,
                                                    team_filter, customer_id),
                       fetch_daily_actuals(start_date, end_date))
        /\ UNCHANGED <<registryVars, tagVars, dailyVars, tx, ret, calls, log, view>>

-----------------------------------------------------------------------------
(* SpecAnalytics: one user saving tags and daily entries and opening Analytics *)

User == "s1"

\* A line with neither quantity.
LineNoQty ==
    [short_heavy_tag |-> "", style_number |-> "C3", item_description |-> "Bag",
     color |-> "Red", size |-> "OTHER", vendor_packing_slip_matches |-> Some(0),
     qty_short |-> NULL, qty_heavy |-> NULL]

\* Arguments of save_problem_tag: customers 1 (Acme) and 2 (Bolt) exist.
Submissions ==
    {[header |-> Header(Some(1), Some(1), "Screenprint"), lines |-> <<LineShort>>],
     [header |-> Header(Some(1), Some(1), "Screenprint"), lines |-> <<LineHeavy>>],
     [header |-> Header(Some(1), Some(2), "Embroidery"), lines |-> <<LineShort, LineHeavy>>],
     [header |-> Header(Some(1), Some(2), "Screenprint"), lines |-> <<LineShort>>],
     [header |-> Header(Some(2), Some(2), "Screenprint"), lines |-> <<LineHeavy, LineNoQty>>]}

\* Arguments of save_daily_actuals: <<receiving_date, orders_received, estimated_units>>.
DailyEntries == {<<1, 4, 20>>, <<1, 1, 5>>, <<2, 1, 0>>}

\* Widget values of the Analytics page:
\* <<start_date, end_date, team_filter, cust_filter, sort_mode>>.
AnalyticsInputs ==
    {<<1, 2, AllOption, AllCustomers, SortModes[i]>> : i \in DOMAIN SortModes}
        \cup {<<1, 1, AllOption, AllCustomers, SortModes[1]>>,
              <<1, 2, "Screenprint", AllCustomers, SortModes[2]>>,
              <<1, 2, AllOption, Acme, SortModes[3]>>,
              <<2, 2, "Screenprint", Acme, SortModes[4]>>}

SubmitTag(sub) ==
    /\ tagSeq < MaxTags
    /\ save_problem_tag(User, sub.header, sub.lines)
    /\ agg' = NotRendered
    /\ UNCHANGED <<registryVars, dailyVars, tx, calls, log, view>>

RecordDaily(e) ==
    /\ dailySeq < MaxDaily
    /\ save_daily_actuals(User, e[1], e[2], e[3], "Receiving Team", "")
    /\ agg' = NotRendered
    /\ UNCHANGED <<registryVars, tagVars, tx, calls, log, view>>

InitAnalytics ==
    /\ customers = {[id |-> 1, customer_name |-> Acme], [id |-> 2, customer_name |-> Bolt]}
    /\ custSeq = 2
    /\ employees = {}
    /\ empSeq = 0
    /\ tags = {}
    /\ lines = {}
    /\ tagSeq = 0
    /\ lineSeq = 0
    /\ daily = {}
    /\ dailySeq = 0
    /\ tx = [s \in Sessions |-> Idle]
    /\ ret = [s \in Sessions |-> NoRet]
    /\ calls = <<>>
    /\ log = {}
    /\ view = <<>>
    /\ agg = NotRendered

NextAnalytics ==
    \/ \E sub \in Submissions : SubmitTag(sub)
    \/ \E e \in DailyEntries : RecordDaily(e)
    \/ \E q \in AnalyticsInputs : Analytics(q[1], q[2], q[3], q[4], q[5])

SpecAnalytics == InitAnalytics /\ [][NextAnalytics]_vars

-----------------------------------------------------------------------------
(* The Problem Tag Submission page of main *)

\* validate_submission as it would be if it returned at the first error found.
validate_submission_first_only(header, total_pieces_with_error) ==
    IF header.date_found = NULL THEN <<"Date Found is required.">>
    ELSE IF Falsy(header.customer_id) THEN <<"Customer is required.">>
    ELSE IF FalsyStr(header.problem_type) THEN <<"Problem Type is required.">>
    ELSE IF total_pieces_with_error = NULL \/ total_pieces_with_error[1] <= 0
    THEN <<"Total pieces with this problem must be greater than 0.">>
    ELSE <<>>

\* The list of error messages, in the order the checks are made.
validate_submission(header, total_pieces_with_error) ==
    (IF header.date_found = NULL THEN <<"Date Found is required.">> ELSE <<>>)
    \o (IF Falsy(header.customer_id) THEN <<"Customer is required.">> ELSE <<>>)
    \o (IF FalsyStr(header.problem_type) THEN <<"Problem Type is required.">> ELSE <<>>)
    \o (IF total_pieces_with_error = NULL \/ total_pieces_with_error[1] <= 0
        THEN <<"Total pieces with this problem must be greater than 0.">> ELSE <<>>)

SelectCustomer == <<"-- Select Customer --">>

AutoTeam == "-- Auto: Receiving --"

\* (text or "").strip(), then the default when nothing is left.  The texts drawn
\* here are empty, blank, or free of outer whitespace.
OrDefault(text, default) == IF text \in {NoneStr, "", " "} THEN default ELSE text

\* f"Quick entry ({problem_type})"
QuickEntry(problem_type) ==
    CASE problem_type = PROBLEM_TYPES[1] -> "Quick entry (Damaged in Production)"
      [] problem_type = PROBLEM_TYPES[2] -> "Quick entry (Short/ Heavy Items)"
      [] problem_type = PROBLEM_TYPES[3] -> "Quick entry (Factory Damage)"
      [] problem_type = ""               -> "Quick entry ()"
      [] OTHER                           -> "Quick entry (None)"

\* The header dict built from the widget values w (friendly names mapped back
\* to ids, optional fields defaulted).
HeaderOf(w) ==
    [date_found          |-> w.date_found,
     po_number           |-> OrDefault(w.po_number, "N/A"),
     customer_id         |->
         IF w.customer_name = SelectCustomer THEN NULL
         ELSE Some((CHOOSE c \in customers : c.customer_name = w.customer_name).id),
     job_name            |-> OrDefault(w.job_name, "Quick Entry"),
     team_name           |->
         IF FalsyStr(w.team_name) \/ w.team_name = AutoTeam THEN "Receiving"
         ELSE w.team_name,
     author_name         |-> OrDefault(w.author_name, "Receiving Team"),
     problem_type        |-> w.problem_type,
     mistake_employee_id |-> NULL,
     notes               |-> w.notes]

\* int(total_pieces_with_error) if total_pieces_with_error else None
PiecesOf(w) ==
    IF Falsy(w.total_pieces_with_error) THEN NULL ELSE w.total_pieces_with_error

\* The single generic line the page stores.
lines_payload(w) ==
    <<[short_heavy_tag |-> NoneStr, style_number |-> "N/A",
       item_description |-> QuickEntry(w.problem_type), color |-> "N/A",
       size |-> "M", vendor_packing_slip_matches |-> NULL,
       qty_short |-> PiecesOf(w), qty_heavy |-> NULL]>>

\* A click on "Submit Problem Tag": validate; show the errors, or save.
SubmitClick(w) ==
    LET header == HeaderOf(w)
        errs   == validate_submission(header, PiecesOf(w))
    IN  /\ IF errs # <<>>
           THEN /\ ret' = [ret EXCEPT ![User] =
                              [status |-> "invalid", errors |-> errs, header |-> header]]
                /\ UNCHANGED tagVars
           ELSE /\ tagSeq < MaxClicks
                /\ save_problem_tag(User, header, lines_payload(w))
        /\ UNCHANGED <<registryVars, dailyVars, tx, calls, log, view, agg>>

\* Values of the page's widgets.  date_input and the problem type selectbox
\* always hold a value in the page as written; validate_submission provides for
\* their absence, so absent values are drawn too.
WidgetValues ==
    [date_found              : {NULL, Some(1)},
     customer_name           : {SelectCustomer, Acme},
     problem_type            : {NoneStr, "", PROBLEM_TYPES[1], PROBLEM_TYPES[2]},
     total_pieces_with_error : {NULL, Some(0), Some(5)},
     po_number               : {""},
     job_name                : {"Spring Promo Kit"},
     team_name               : {AutoTeam, TEAM_OPTIONS[1]},
     author_name             : {" "},
     notes                   : {""}]

NextSubmit == \E w \in WidgetValues : SubmitClick(w)

SpecSubmit == InitAnalytics /\ [][NextSubmit]_vars

-----------------------------------------------------------------------------
(* SpecStore: one user going through all four pages: Admin (add customer, add
   employee), Problem Tag Submission, Receiving Data and Analytics *)

StoreNames == {<<" ">>, Acme \o <<" ">>, Bolt}

StoreSubmissions ==
    {[header |-> Header(Some(1), Some(1), "Screenprint"), lines |-> <<LineShort, LineHeavy>>],
     [header |-> Header(Some(2), Some(2), "Embroidery"), lines |-> <<LineNoQty>>]}

StoreDaily == {<<1, 4, 20>>}

StoreAnalyticsInputs ==
    {<<1, 2, AllOption, AllCustomers, SortModes[4]>>,
     <<1, 1, "Screenprint", Acme, SortModes[2]>>}

\* The store after init_db with one customer registered.
InitStore ==
    /\ customers = {[id |-> 1, customer_name |-> Acme]}
    /\ custSeq = 1
    /\ employees = {}
    /\ empSeq = 0
    /\ tags = {}
    /\ lines = {}
    /\ tagSeq = 0
    /\ lineSeq = 0
    /\ daily = {}
    /\ dailySeq = 0
    /\ tx = [s \in Sessions |-> Idle]
    /\ ret = [s \in Sessions |-> NoRet]
    /\ calls = <<>>
    /\ log = {}
    /\ view = <<>>
    /\ agg = NotRendered

NextStore ==
    \/ \E raw \in StoreNames : add_customer_if_needed(User, raw)
    \/ \E raw \in StoreNames : add_employee(User, raw)
    \/ Upsert(User)
    \/ CommitUpsert(User)
    \/ \E sub \in StoreSubmissions : tx[User].pc = "idle" /\ SubmitTag(sub)
    \/ \E e \in StoreDaily : tx[User].pc = "idle" /\ RecordDaily(e)
    \/ tx[User].pc = "idle" /\ Fetch(AllRows)
    \/ \E q \in StoreAnalyticsInputs :
          tx[User].pc = "idle" /\ Analytics(q[1], q[2], q[3], q[4], q[5])

SpecStore == InitStore /\ [][NextStore]_vars

-----------------------------------------------------------------------------
(* Properties of Spec *)

FetchAll == fetch_problem_tags_and_lines(AllRows[1], AllRows[2], AllRows[3], AllRows[4])

\* The line fields of the rows of dataframe v that belong to tag t, in v's order.
LinesRead(v, t) ==
    LET rows == SelectSeq(v, LAMBDA r : r.tag_id = t)
    IN  [i \in 1..Len(rows) |-> [k \in LineKeys |-> rows[i][k]]]

\* C1: when save_problem_tag raised on a line INSERT (the header INSERT having
\* succeeded), the committed tables hold no header row and no line row of that
\* call.
C1_AllOrNothing ==
    \A s \in Sessions :
        (ret[s].status = "IntegrityError" /\ ret[s].at >= 1)
            => /\ \A t \in tags : t.id # ret[s].tag_id
               /\ \A l \in lines : l.tag_id # ret[s].tag_id

\* A call failed on its second line, after its header and first line were inserted.
C1_Witness ==
    \E s \in Sessions : ret[s].status = "IntegrityError" /\ ret[s].at = 2

\* C2: every report in a dataframe returned to a reader comes with all the
\* lines its save_problem_tag call was given, and the header of a call still
\* in progress is in no reader's dataframe.
C2_ReaderSeesWholeReports ==
    /\ \A t \in TagIdsOf(view) :
          /\ t \in DOMAIN calls
          /\ Cardinality({i \in DOMAIN view :
                             view[i].tag_id = t /\ view[i].line_id # NULL})
                = Len(calls[t])
    /\ \A s \in Sessions : tx[s].pc = "lines" => tx[s].tag.id \notin TagIdsOf(view)

\* A reader ran its query between two line INSERTs of a submit in progress and
\* got another report with both of its lines.
C2_Witness ==
    \E s \in Sessions :
        /\ tx[s].pc = "lines"
        /\ tx[s].pend # <<>>
        /\ tx[s].todo # <<>>
        /\ view = FetchAll
        /\ Len(view) = 2
        /\ view[1].line_id # NULL

\* C4 (as claimed): every stored header has at least one line.
C4_EveryHeaderHasALine ==
    \A t \in tags : \E l \in lines : l.tag_id = t.id

\* C5: once save_problem_tag has returned tag_id for a non-empty list of lines,
\* the rows read for tag_id carry exactly the submitted line fields, in the
\* order submitted, whatever other calls have run since.
C5_RoundTrip ==
    \A s \in Sessions :
        (ret[s].status = "ok" /\ calls[ret[s].tag_id] # <<>>)
            => LET c == calls[ret[s].tag_id]
               IN  LinesRead(FetchAll, ret[s].tag_id)
                      = [i \in 1..Len(c) |-> [k \in LineKeys |-> c[i][k]]]

\* A report of two different lines was saved, its line ids are not consecutive
\* (another call's INSERT came between them), and the other report is stored.
C5_Witness ==
    \E s \in Sessions :
        /\ ret[s].status = "ok"
        /\ Len(calls[ret[s].tag_id]) = 2
        /\ calls[ret[s].tag_id][1] # calls[ret[s].tag_id][2]
        /\ Cardinality(tags) = 2
        /\ \E a, b \in lines :
              a.tag_id = ret[s].tag_id /\ b.tag_id = ret[s].tag_id /\ b.id > a.id + 1

\* C12: every stored header's customer_id is the id of a stored customer, every
\* stored line's tag_id is the id of a stored header, a call gets past its
\* header INSERT only with a customer_id that is a stored customer's id, and a
\* call that raised on its header INSERT left no header row and no line row.
C12_ReferentialIntegrity ==
    /\ \A t \in tags : \E c \in customers : Some(c.id) = t.customer_id
    /\ \A l \in lines : \E t \in tags : t.id = l.tag_id
    /\ \A s \in Sessions :
          /\ tx[s].pc = "lines" =>
                \E c \in customers : Some(c.id) = tx[s].tag.customer_id
          /\ (ret[s].status = "IntegrityError" /\ ret[s].at = 0) =>
                /\ \A t \in tags : t.id # ret[s].tag_id
                /\ \A l \in lines : l.tag_id # ret[s].tag_id

\* A call naming a customer that does not exist raised on its header INSERT
\* while the other session's report, with its lines, is stored.
C12_Witness ==
    \E s \in Sessions :
        /\ ret[s].status = "IntegrityError"
        /\ ret[s].at = 0
        /\ tags # {}
        /\ lines # {}
        /\ tagSeq > Cardinality(tags)

-----------------------------------------------------------------------------
(* Properties of SpecRegistry *)

\* C3: all calls of add_customer_if_needed (add_employee) that returned for one
\* name returned the same id, no call with a name that is non-empty after
\* strip() raised, and no table ever holds two rows with one name.
C3_GetOrCreateIdempotent ==
    /\ \A a, b \in log : (a[1] = b[1] /\ a[2] = b[2]) => a[3] = b[3]
    /\ \A s \in Sessions : ret[s].status \in {"none", "ok", "ValueError"}
    /\ \A kind \in {"customer", "employee"} :
          \A a, b \in Registry(kind) : a[2] = b[2] => a = b

\* A call for a name has returned, a second call for it holds its uncommitted
\* upsert and a third, concurrent one waits for the same name.
C3_Witness ==
    \E s, o \in Sessions :
        /\ tx[s].pc = "upserted"
        /\ tx[s].existed
        /\ tx[o].pc = "upsert"
        /\ tx[o].kind = tx[s].kind
        /\ tx[o].name = tx[s].name
        /\ <<tx[s].kind, tx[s].name, tx[s].id>> \in log

\* C11: a call whose name is empty after strip() raises ValueError and leaves
\* both tables and their sequences as they were; every other call that has
\* returned gave the id of the row that holds the stripped name, so that two
\* calls whose names differ only in outer whitespace returned the same id; and
\* no stored name is empty or has outer whitespace.
C11_TrimmedNames ==
    /\ [](/\ \A s \in Sessions :
                 /\ ret[s].status = "ValueError" <=>
                       (ret[s].status # "none" /\ Strip(ret[s].raw) = <<>>)
                 /\ ret[s].status = "ok" =>
                       <<ret[s].id, Strip(ret[s].raw)>> \in Registry(ret[s].kind)
           /\ \A p, q \in Sessions :
                 (/\ ret[p].status = "ok" /\ ret[q].status = "ok"
                  /\ ret[p].kind = ret[q].kind
                  /\ Strip(ret[p].raw) = Strip(ret[q].raw))
                     => ret[p].id = ret[q].id
           /\ \A kind \in {"customer", "employee"} :
                 \A r \in Registry(kind) : r[2] # <<>> /\ Strip(r[2]) = r[2])
    /\ [][\A s \in Sessions :
             (ret'[s].status = "ValueError" /\ ret'[s] # ret[s])
                 => UNCHANGED registryVars]_vars

\* Two calls with names that differ only in outer whitespace have both returned,
\* while the table already holds another name.
C11_Witness ==
    \E s, o \in Sessions :
        /\ ret[s].status = "ok" /\ ret[o].status = "ok"
        /\ ret[s].kind = ret[o].kind
        /\ ret[s].raw # ret[o].raw
        /\ Strip(ret[s].raw) = Strip(ret[o].raw)
        /\ Cardinality(Registry(ret[s].kind)) = 2

-----------------------------------------------------------------------------
(* Properties of SpecAnalytics *)

\* The tag-level rows of the rendered result that make up group g.
RowsOfGroup(g) == {r \in agg.tag_level : r.customer_name = g.customer_name}

\* Units received on date d according to the stored daily entries.
BaselineOn(d) ==
    LET S == {r \in daily : r.receiving_date = d}
    IN  SumOf(S, [r \in S |-> r.estimated_units])

\* C6 (as claimed): the pipeline never ends in an error for want of baseline
\* units, and in every result each tag-level row, each group and the headline
\* with total_units = 0 has error_rate = 0.
C6_ZeroDenominatorPolicy ==
    /\ agg.status # "KeyError"
    /\ agg.status = "ok" =>
          /\ \A r \in agg.tag_level : r.total_units = 0 => r.error_rate = Zero
          /\ \A g \in Range(agg.cust_agg) : g.total_units = 0 => g.error_rate = Zero
          /\ agg.total_units_overall = 0 => agg.overall_error_rate = Zero

\* C7 (as claimed): a group of exactly two tags found on one date, with error
\* units 3 and 7, where 20 units were received on that date, has total_units 20
\* and error_rate 10/20.
C7_AggregateRateExample ==
    agg.status = "ok" =>
        \A g \in Range(agg.cust_agg) :
            (/\ Cardinality(RowsOfGroup(g)) = 2
             /\ {r.error_units : r \in RowsOfGroup(g)} = {3, 7}
             /\ \E d \in Dates :
                   /\ BaselineOn(d) = 20
                   /\ \A r \in RowsOfGroup(g) : r.date_found = d)
                => /\ g.total_units = 20
                   /\ g.error_rate = [num |-> 1, den |-> 2]

\* C8: in every result the groups are exactly the customers that have a
\* tag-level row, each group's orders_with_issue, error_units and total_units
\* are the sums of those columns over its tag-level rows, and when the summed
\* total_units is positive its error_rate is the quotient of the two sums.
C8_GroupSums ==
    agg.status = "ok" =>
        /\ {g.customer_name : g \in Range(agg.cust_agg)}
              = {r.customer_name : r \in agg.tag_level}
        /\ Len(agg.cust_agg) = Cardinality({r.customer_name : r \in agg.tag_level})
        /\ \A g \in Range(agg.cust_agg) :
              LET rows == RowsOfGroup(g)
                  eu   == SumOf(rows, [r \in rows |-> r.error_units])
                  tu   == SumOf(rows, [r \in rows |-> r.total_units])
              IN  /\ g.orders_with_issue = Cardinality(rows)
                  /\ g.error_units = eu
                  /\ g.total_units = tu
                  /\ tu > 0 => g.error_rate.num * tu = eu * g.error_rate.den

\* A group of two tags whose rate, the quotient of the sums, differs from the
\* mean of its two tags' rates, while a customer without tags in range is absent.
C8_Witness ==
    /\ agg.status = "ok"
    /\ Len(agg.cust_agg) = 1
    /\ \E g \in Range(agg.cust_agg) :
          /\ Cardinality(RowsOfGroup(g)) = 2
          /\ g.total_units > 0
          /\ g.error_rate # MeanRate(RowsOfGroup(g))

\* The value of the column sort_mode sorts on.
SortKey(sort_mode, g) ==
    CASE sort_mode = "Highest error rate" -> g.error_rate
      [] sort_mode = "Most error units"   -> g.error_units
      [] sort_mode = "Most problem tags"  -> g.orders_with_issue
      [] OTHER                            -> g.customer_name

\* C9 (as claimed): the groups are in the order of the sort mode and groups of
\* equal sort key are in ascending name order.
C9_RankingDeterministic ==
    agg.status = "ok" =>
        \A i, j \in DOMAIN agg.cust_agg :
            i < j =>
                LET a == agg.cust_agg[i]
                    b == agg.cust_agg[j]
                IN  /\ ~SortedBefore(agg.query.sort_mode, b, a)
                    /\ SortKey(agg.query.sort_mode, a) = SortKey(agg.query.sort_mode, b)
                          => NameLess(a.customer_name, b.customer_name)

\* The packing-slip match rate of a dataframe of joined rows as C15 defines it:
\* matches over lines with a known value, or "no data" when there is none.
PackingSlipRate(df) ==
    LET known == {i \in DOMAIN df : df[i].vendor_packing_slip_matches # NULL}
        match == {i \in known : df[i].vendor_packing_slip_matches = Some(1)}
    IN  IF known = {} THEN "no data"
        ELSE Quotient(Cardinality(match), Cardinality(known))

\* C15 (as claimed): a rendered Analytics result carries a packing-slip match
\* rate, which is the number of matching lines over the number of lines with a
\* known value among the lines in range, or "no data" without such lines.
C15_PackingSlipRate ==
    agg.status = "ok" =>
        /\ "packing_slip_rate" \in DOMAIN agg
        /\ agg.packing_slip_rate
              = PackingSlipRate(fetch_problem_tags_and_lines(
                    agg.query.start_date, agg.query.end_date, AllOption, NULL))

\* The stored reports with date_found in the range of query q that match its
\* team and customer filters.
MatchingTags(q) ==
    {t \in tags :
        /\ q.start_date <= t.date_found[1]
        /\ t.date_found[1] <= q.end_date
        /\ q.team_filter = AllOption \/ t.team_name = q.team_filter
        /\ \/ q.cust_filter = AllCustomers
           \/ \E c \in customers :
                 c.customer_name = q.cust_filter /\ Some(c.id) = t.customer_id}

\* qty_short + qty_heavy over the stored lines of report t, absent counted as 0.
StoredErrorUnits(t) ==
    LET ls == {l \in lines : l.tag_id = t.id}
    IN  SumOf(ls, [l \in ls |-> ErrorUnitsOfRow(l)])

\* In a rendered result: one tag-level row per matching report, with
\* orders_with_issue 1 and the report's error units, and the groups'
\* orders_with_issue adding up to the number of matching reports.
TagLevelCollapsed ==
    LET M == MatchingTags(agg.query)
    IN  /\ Cardinality(agg.tag_level) = Cardinality(M)
        /\ \A t \in M :
              \E r \in agg.tag_level :
                  /\ r.tag_id = t.id
                  /\ r.orders_with_issue = 1
                  /\ r.error_units = StoredErrorUnits(t)
        /\ SumOf(DOMAIN agg.cust_agg,
                 [i \in DOMAIN agg.cust_agg |-> agg.cust_agg[i].orders_with_issue])
              = Cardinality(M)

\* C16 (as claimed): whenever the Analytics page has run for a query, each
\* stored report in range that matches the filters has yielded exactly one
\* tag-level row, with orders_with_issue 1 and error_units the sum of its
\* lines' qty_short + qty_heavy, and the groups' orders_with_issue add up to
\* the number of those reports.
C16_TagLevelCollapse ==
    agg.status # "not rendered" =>
        IF agg.status = "ok" THEN TagLevelCollapsed
        ELSE MatchingTags(agg.query) = {}

\* In a rendered result every tag-level row's total_units is the sum of
\* estimated_units over the stored daily entries of the row's date_found.
BaselineAttached ==
    \A r \in agg.tag_level : r.total_units = BaselineOn(r.date_found)

\* C17 (as claimed): every call of save_daily_actuals has added a row of its
\* own, and whenever the Analytics page has run for a query with reports in
\* range, each of their tag-level rows has as total_units the sum of
\* estimated_units over the daily entries of its date_found, 0 without any.
C17_BaselineCollapse ==
    /\ Cardinality(daily) = dailySeq
    /\ (agg.status # "not rendered" /\ MatchingTags(agg.query) # {})
          => (agg.status = "ok" /\ BaselineAttached)

\* The name of the stored customer report t refers to.
CustomerOf(t) == (CHOOSE c \in customers : Some(c.id) = t.customer_id).customer_name

\* What the stored reports and daily entries, as sets, make of customer name's
\* group under query q.
StoreGroup(q, name) ==
    LET M  == {t \in MatchingTags(q) : CustomerOf(t) = name}
        eu == SumOf(M, [t \in M |-> StoredErrorUnits(t)])
        tu == SumOf(M, [t \in M |-> BaselineOn(t.date_found[1])])
    IN  [customer_name     |-> name,
         orders_with_issue |-> Cardinality(M),
         error_units       |-> eu,
         total_units       |-> tu,
         error_rate        |-> ErrorRate(eu, tu)]

\* C18: the outcome of the Analytics page is decided by the reports and daily
\* entries stored when it runs, whatever the order they were saved in: which
\* of the four outcomes it is follows from whether reports and daily entries
\* lie in range, and a rendered result has, for each customer with a report in
\* range, the one group row those stored rows give, every stored daily entry
\* of a report's date counted in its total_units and error_rate.
C18_FunctionOfStore ==
    LET q  == agg.query
        M  == MatchingTags(q)
        dd == fetch_daily_actuals(q.start_date, q.end_date)
    IN  agg.status # "not rendered" =>
          /\ agg.status = (IF M = {} /\ dd = {} THEN "No data found in this date range."
                           ELSE IF M = {} THEN "No problem tags found in this date range."
                           ELSE IF dd = {} THEN "KeyError"
                           ELSE "ok")
          /\ agg.status = "ok" =>
                /\ Range(agg.cust_agg) = {StoreGroup(q, CustomerOf(t)) : t \in M}
                /\ Len(agg.cust_agg) = Cardinality({CustomerOf(t) : t \in M})
                /\ \A r \in agg.tag_level :
                      /\ r.total_units = BaselineOn(r.date_found)
                      /\ r.error_rate = ErrorRate(r.error_units, r.total_units)

\* The page was rendered after a second daily entry for day 1 was saved, which
\* was saved after the reports: a report of day 1 shows both entries' units.
C18_Witness ==
    /\ agg.status = "ok"
    /\ ret[User].status = "ok"
    /\ "id" \in DOMAIN ret[User]
    /\ ret[User].id = 2
    /\ Cardinality(tags) = 2
    /\ \E r \in agg.tag_level :
          /\ r.total_units = 25
          /\ r.error_rate = [num |-> 3, den |-> 25]

-----------------------------------------------------------------------------
(* Properties of SpecSubmit *)

Occurrences(seq, x) == Cardinality({i \in DOMAIN seq : seq[i] = x})

\* C10: the error list shown after a click holds exactly one message for each
\* of date_found, customer_id, problem_type that the header lacks, and a click
\* that shows errors writes no header row and no line row.
C10_ValidationCollectsAll ==
    /\ [](ret[User].status = "invalid" =>
            LET h == ret[User].header
                e == ret[User].errors
            IN  /\ e # <<>>
                /\ Occurrences(e, "Date Found is required.")
                      = (IF h.date_found = NULL THEN 1 ELSE 0)
                /\ Occurrences(e, "Customer is required.")
                      = (IF Falsy(h.customer_id) THEN 1 ELSE 0)
                /\ Occurrences(e, "Problem Type is required.")
                      = (IF FalsyStr(h.problem_type) THEN 1 ELSE 0))
    /\ [][ret'[User].status = "invalid" => UNCHANGED tagVars]_vars

\* After a tag was saved, a click with all three required fields missing showed
\* the three messages together.
C10_Witness ==
    /\ ret[User].status = "invalid"
    /\ tags # {}
    /\ {"Date Found is required.", "Customer is required.", "Problem Type is required."}
          \subseteq Range(ret[User].errors)

\* C13 (as claimed): every stored line has qty_short and qty_heavy absent or
\* not negative and a size of SIZE_OPTIONS, and every stored header has a
\* team_name of TEAM_OPTIONS and a problem_type of PROBLEM_TYPES.
C13_FieldDomains ==
    /\ \A l \in lines :
          /\ l.qty_short = NULL \/ l.qty_short[1] >= 0
          /\ l.qty_heavy = NULL \/ l.qty_heavy[1] >= 0
          /\ l.size \in Range(SIZE_OPTIONS)
    /\ \A t \in tags :
          /\ t.team_name \in Range(TEAM_OPTIONS)
          /\ t.problem_type \in Range(PROBLEM_TYPES)

-----------------------------------------------------------------------------
(* Properties of SpecStore *)

\* C14: no step removes or alters a row of any of the five tables (a call of
\* add_customer_if_needed or add_employee for a stored name included), and a
\* step that returns a dataframe to a reader or renders the Analytics page
\* leaves the five tables and their sequences as they were.
C14_InsertOnly ==
    [][/\ customers \subseteq customers'
       /\ employees \subseteq employees'
       /\ tags \subseteq tags'
       /\ lines \subseteq lines'
       /\ daily \subseteq daily'
       /\ (view' # view \/ (agg' # agg /\ agg' # NotRendered))
             => UNCHANGED <<registryVars, tagVars, dailyVars>>]_vars

\* With a report, a daily entry and a rendered Analytics page in place,
\* add_customer_if_needed has returned the id of a customer stored before the call.
C14_Witness ==
    /\ ret[User].status = "ok"
    /\ "kind" \in DOMAIN ret[User]
    /\ ret[User].kind = "customer"
    /\ ret[User].id < custSeq
    /\ tags # {}
    /\ daily # {}
    /\ view # <<>>
    /\ agg.status = "ok"

====
